---- MODULE Spec2Model ----
(***************************************************************************)
(* Model of custom_components/rte_ecowatt/config_flow.py: the setup flow   *)
(* (SetupConfigFlow) and the options flow (OptionsFlowHandler) of the      *)
(* integration, driven by the host's flow manager.                         *)
(*                                                                         *)
(* The host keeps a number of flow instances.  For each it remembers the   *)
(* last result the flow returned (cur_step); a form is answered by calling *)
(* the step named by the form with the submitted input, a menu by calling  *)
(* the chosen step with no input.  Python object identity is kept where    *)
(* the code relies on it: the options flow's self.user_input is the very   *)
(* object config_entry.data (a reference), the setup flow's is its own.    *)
(***************************************************************************)
EXTENDS Integers, Sequences, FiniteSets, TLC

VARIABLES
    handler,        \* per flow: "none", "SetupConfigFlow" or "OptionsFlowHandler"
    cur_step,       \* per flow: the last result returned to the host
    user_input,     \* per flow: self.user_input
    unique_id,      \* per flow: context["unique_id"] ("" while unset)
    config_entry,   \* per flow: self.config_entry (index into entries, 0 if none)
    all_sensors,    \* per flow: self.all_sensors (keys of the dict, in order)
    sensor_map,     \* per flow: self.sensor_map (entity_id -> registry entry)
    entries,        \* host: the persisted config entries, in creation order
    registry,       \* host: the entity registry (set of registry entries)
    call,           \* the last step-handler invocation made by the host
    validator_calls, \* how often the last step called the credential validator
    removals,       \* the entity ids the last step passed to async_remove
    accepted,       \* per flow: the input the validator last accepted
    session         \* per flow: the sensors the working record started with
                    \* and those submitted to the flow since

vars == <<handler, cur_step, user_input, unique_id, config_entry,
          all_sensors, sensor_map, entries, registry, call,
          validator_calls, removals, accepted, session>>

----------------------------------------------------------------------------
(* Bounds of the model *)

\* Total number of SensorSpecs held in all sensors lists together.
MaxSensors == 2
\* Number of entities the sensor platform can register (ids 1..NumEntities).
NumEntities == 3

FlowIds == {1, 2}

(* Program constants *)

\* vol.In(range(4 * 24)) for hours, vol.In(range(4)) for days
HoursRange == 96
DaysRange == 4

----------------------------------------------------------------------------
(* Values *)

None == [kind |-> "none"]
Some(v) == [kind |-> "val", v |-> v]
\* a Python object owned by the holder / a reference to entries[i].data
Own(rec) == [kind |-> "own", rec |-> rec]
Ref(i) == [kind |-> "ref", entry |-> i]

\* The dictionary built by _manual_configuration_step
SensorSpec(sensor_unit, shift) == [unit |-> sensor_unit, shift |-> shift]

\* A spec as a caller may pre-seed it: it also carries a "path" key
PathSpec == [unit |-> "hours", shift |-> 1, path |-> 2]

\* Field mappings the host can hand to async_step_user
CredInputs ==
    { [client_id |-> "a", client_secret |-> "sa"],
      [client_id |-> "b", client_secret |-> "sb", sensors |-> <<PathSpec>>] }

\* Outcomes of AsyncOauthClient(user_input) followed by client()
ValidatorOutcomes == {"ok", "InvalidClientError", "Exception"}

\* Shift values the host can hand to the add-sensor steps
ShiftInputs == {3, 4, 96}

Units == {"hours", "days"}
InRange(sensor_unit, shift) ==
    IF sensor_unit = "hours" THEN shift \in 0..(HoursRange - 1)
                             ELSE shift \in 0..(DaysRange - 1)

----------------------------------------------------------------------------
(* Results returned to the host *)

NoResult == [type |-> "none", step_id |-> "", errors |-> "",
             menu_options |-> <<>>, default |-> <<>>, data |-> None,
             reason |-> ""]

async_show_form(step_id, errors, default) ==
    [NoResult EXCEPT !.type = "form", !.step_id = step_id,
                     !.errors = errors, !.default = default]

async_show_menu(step_id, menu_options) ==
    [NoResult EXCEPT !.type = "menu", !.step_id = step_id,
                     !.menu_options = menu_options]

async_create_entry(data) ==
    [NoResult EXCEPT !.type = "create_entry", !.data = data]

AbortFlow(reason) ==
    [NoResult EXCEPT !.type = "abort", !.reason = reason]

\* An exception that leaves the step handler: the host reports the error
\* and keeps the flow at the form it was answering (shown).
Escaped(shown, reason) ==
    [shown EXCEPT !.type = "exception", !.reason = reason]

\* A setup menu that offers the deletion too
Setup_configuration_menu_WithDelete(step_id) ==
    async_show_menu(step_id, <<"finish_configuration",
                               "configure_hours_sensor",
                               "configure_days_sensor",
                               "delete_sensor">>)

Setup_configuration_menu(step_id) ==
    async_show_menu(step_id, <<"finish_configuration",
                               "configure_hours_sensor",
                               "configure_days_sensor">>)

Options_configuration_menu(step_id) ==
    async_show_menu(step_id, <<"finish_configuration",
                               "configure_hours_sensor",
                               "configure_days_sensor",
                               "delete_sensor">>)

----------------------------------------------------------------------------
(* The working record behind self.user_input *)

Deref(ui, ents) ==
    IF ui.kind = "ref" THEN ents[ui.entry].data ELSE ui.rec

SeqSum(s) ==
    LET RECURSIVE Sum(_)
        Sum(i) == IF i = 0 THEN 0 ELSE s[i] + Sum(i - 1)
    IN Sum(Len(s))

\* Number of SensorSpecs in all lists that exist
TotalSensors ==
    LET own == {f \in FlowIds : user_input[f].kind = "own"}
        RECURSIVE OwnSum(_)
        OwnSum(S) == IF S = {} THEN 0
                     ELSE LET f == CHOOSE x \in S : TRUE
                          IN Len(user_input[f].rec.sensors) + OwnSum(S \ {f})
    IN OwnSum(own) + SeqSum([i \in DOMAIN entries |-> Len(entries[i].data.sensors)])

----------------------------------------------------------------------------
(* Host collaborators *)

\* The sensor platform registers the entities of a new entry.  Entity e is
\* recorded with unique_id e; entities are shared out among the accounts.
EntityOwner(e) == IF e % 2 = 1 THEN "a" ELSE "b"

RegistryEntry(e, i) == [entity_id |-> e, unique_id |-> e, config_entry_id |-> i]

HostSetupEntities(i, client) ==
    {RegistryEntry(e, i) : e \in {x \in 1..NumEntities : EntityOwner(x) = client}}

\* async_entries_for_config_entry: the entries of one config entry, as a
\* list (ordered by entity id)
async_entries_for_config_entry(reg, i) ==
    LET mine == {r \in reg : r.config_entry_id = i}
        RECURSIVE Sorted(_)
        Sorted(S) ==
            IF S = {} THEN <<>>
            ELSE LET m == CHOOSE r \in S : \A q \in S : r.entity_id <= q.entity_id
                 IN <<m>> \o Sorted(S \ {m})
    IN Sorted(mine)

\* A flow that never finds its unique id configured
UniqueIdConfigured_Never(id, ents) == FALSE

\* _abort_if_unique_id_configured: is there an entry with this unique id
UniqueIdConfigured(id, ents) ==
    \E i \in DOMAIN ents : ents[i].unique_id = id

----------------------------------------------------------------------------
(* SetupConfigFlow *)

\* Every failure reported as a generic one / as an authentication one
UserStepErrors_AllGeneric(outcome) ==
    IF outcome = "ok" THEN "" ELSE "generic_error"

UserStepErrors_AllAuth(outcome) ==
    IF outcome = "ok" THEN "" ELSE "auth_error"

\* errors["base"] after the try/except of async_step_user ("" : no error)
UserStepErrors(outcome) ==
    IF outcome = "ok" THEN ""
    ELSE IF outcome = "InvalidClientError" THEN "auth_error"
    ELSE "generic_error"

\* The sensors list reset even when the input carries one
AcceptedRecord_DropsSeed(input) ==
    [client_id |-> input.client_id,
     client_secret |-> input.client_secret,
     sensors |-> <<>>]

\* The input kept as it came, without the "sensors" default
AcceptedRecord_NoDefault(input) == input

\* self.user_input = user_input; "sensors" defaulted to [] when absent
AcceptedRecord(input) ==
    IF "sensors" \in DOMAIN input
    THEN input
    ELSE [client_id |-> input.client_id,
          client_secret |-> input.client_secret,
          sensors |-> <<>>]

\* A step that consults the validator whatever it is handed
ValidatorCalls_Always(input) == 1

\* test_client = AsyncOauthClient(user_input); await test_client.client():
\* done once, inside "if user_input is not None"
ValidatorCalls(input) == IF input # None THEN 1 ELSE 0

\* A user step that goes on to the menu whatever the validator did
Setup_async_step_user_AcceptsFailure(f, input, outcome) ==
    /\ validator_calls' = ValidatorCalls(input)
    /\ IF input # None
       THEN /\ user_input' = [user_input EXCEPT ![f] = Own(AcceptedRecord(input.v))]
            /\ cur_step' = [cur_step EXCEPT ![f] = Setup_configuration_menu("user")]
       ELSE /\ UNCHANGED user_input
            /\ cur_step' = [cur_step EXCEPT ![f] = async_show_form("user", "", <<>>)]

\* async_step_user(user_input); outcome is what the validator does when it
\* is called (it is called only when user_input is not None)
Setup_async_step_user(f, input, outcome) ==
    /\ validator_calls' = ValidatorCalls(input)
    /\ IF input # None /\ outcome = "ok"
       THEN /\ user_input' = [user_input EXCEPT ![f] = Own(AcceptedRecord(input.v))]
            /\ cur_step' = [cur_step EXCEPT ![f] = Setup_configuration_menu("user")]
       ELSE /\ UNCHANGED user_input
            /\ cur_step' = [cur_step EXCEPT ![f] =
                   async_show_form("user",
                       IF input = None THEN "" ELSE UserStepErrors(outcome), <<>>)]

StepName(sensor_unit) ==
    IF sensor_unit = "hours" THEN "configure_hours_sensor"
                             ELSE "configure_days_sensor"

\* The working sensors of flow f
WorkingSensors(ui, ents) == Deref(ui, ents).sensors

\* An append that skips a spec the list already holds
ListAppend_Dedup(f, spec) ==
    LET held == WorkingSensors(user_input[f], entries)
        next == IF \E k \in DOMAIN held : held[k] = spec
                THEN held ELSE Append(held, spec)
    IN IF user_input[f].kind = "ref"
       THEN /\ entries' = [entries EXCEPT ![user_input[f].entry].data.sensors = next]
            /\ UNCHANGED user_input
       ELSE /\ user_input' = [user_input EXCEPT ![f].rec.sensors = next]
            /\ UNCHANGED entries

\* An append to a list that all flows share
ListAppend_Shared(f, spec) ==
    /\ user_input' = [g \in FlowIds |->
           IF user_input[f].kind = "own" /\ user_input[g].kind = "own"
           THEN [user_input[g] EXCEPT !.rec.sensors = Append(@, spec)]
           ELSE user_input[g]]
    /\ entries' = [i \in DOMAIN entries |->
           IF user_input[f].kind = "ref" /\ \E g \in FlowIds : user_input[g] = Ref(i)
           THEN [entries[i] EXCEPT !.data.sensors = Append(@, spec)]
           ELSE entries[i]]

\* self.user_input["sensors"].append({...}): the list is changed in place,
\* in whichever object self.user_input is
ListAppend(f, spec) ==
    IF user_input[f].kind = "ref"
    THEN /\ entries' = [entries EXCEPT ![user_input[f].entry].data.sensors =
                            Append(@, spec)]
         /\ UNCHANGED user_input
    ELSE /\ user_input' = [user_input EXCEPT ![f].rec.sensors = Append(@, spec)]
         /\ UNCHANGED entries

\* SetupConfigFlow._manual_configuration_step(sensor_unit, validator, user_input)
Setup_manual_configuration_step(f, sensor_unit, input) ==
    IF input # None
    THEN /\ ListAppend(f, SensorSpec(sensor_unit, input.v))
         /\ cur_step' = [cur_step EXCEPT ![f] =
                Setup_configuration_menu(StepName(sensor_unit))]
    ELSE /\ UNCHANGED <<user_input, entries>>
         /\ cur_step' = [cur_step EXCEPT ![f] =
                async_show_form(StepName(sensor_unit), "", <<>>)]

\* SetupConfigFlow.async_step_finish_configuration; on create-entry the host
\* stores the entry and sets up its sensor platform
Setup_async_step_finish_configuration(f) ==
    LET rec == Deref(user_input[f], entries)
        id == rec.client_id
    IN /\ unique_id' = [unique_id EXCEPT ![f] = id]
       /\ IF UniqueIdConfigured(id, entries)
          THEN /\ cur_step' = [cur_step EXCEPT ![f] = AbortFlow("already_configured")]
               /\ UNCHANGED <<entries, registry>>
          ELSE /\ cur_step' = [cur_step EXCEPT ![f] = async_create_entry(Some(rec))]
               /\ entries' = Append(entries, [unique_id |-> id, data |-> rec])
               /\ registry' = registry \cup HostSetupEntities(Len(entries) + 1, id)

----------------------------------------------------------------------------
(* OptionsFlowHandler *)

\* OptionsFlowHandler.__init__(config_entry)
Options_init(f, i) ==
    /\ config_entry' = [config_entry EXCEPT ![f] = i]
    /\ user_input' = [user_input EXCEPT ![f] = None]
    /\ all_sensors' = [all_sensors EXCEPT ![f] = None]
    /\ sensor_map' = [sensor_map EXCEPT ![f] = None]

\* The keys of {e.entity_id: ... for e in entries}, in order
EntityIds(ents) == [k \in DOMAIN ents |-> ents[k].entity_id]

\* An init that takes the credentials of the existing record but starts the
\* sensor list afresh
Options_async_step_init_Fresh(f) ==
    LET found == async_entries_for_config_entry(registry, config_entry[f])
    IN /\ user_input' = [user_input EXCEPT ![f] =
              Own([entries[config_entry[f]].data EXCEPT !.sensors = <<>>])]
       /\ all_sensors' = [all_sensors EXCEPT ![f] = Some(EntityIds(found))]
       /\ sensor_map' = [sensor_map EXCEPT ![f] = Some(found)]
       /\ cur_step' = [cur_step EXCEPT ![f] = Options_configuration_menu("init")]

\* OptionsFlowHandler.async_step_init
Options_async_step_init(f) ==
    LET found == async_entries_for_config_entry(registry, config_entry[f])
    IN /\ user_input' = [user_input EXCEPT ![f] =
              IF @ = None THEN Ref(config_entry[f]) ELSE @]
       /\ all_sensors' = [all_sensors EXCEPT ![f] = Some(EntityIds(found))]
       /\ sensor_map' = [sensor_map EXCEPT ![f] = Some(found)]
       /\ cur_step' = [cur_step EXCEPT ![f] = Options_configuration_menu("init")]

\* A finish that checks the identity as the setup flow's does
Options_async_step_finish_configuration_ChecksIdentity(f) ==
    LET rec == Deref(user_input[f], entries)
    IN cur_step' = [cur_step EXCEPT ![f] =
           IF UniqueIdConfigured(rec.client_id, entries)
           THEN AbortFlow("already_configured")
           ELSE async_create_entry(Some(rec))]

\* OptionsFlowHandler.async_step_finish_configuration
Options_async_step_finish_configuration(f) ==
    cur_step' = [cur_step EXCEPT ![f] =
        async_create_entry(Some(Deref(user_input[f], entries)))]

\* OptionsFlowHandler._manual_configuration_step(sensor_unit, validator, user_input)
Options_manual_configuration_step(f, sensor_unit, input) ==
    IF input # None
    THEN /\ ListAppend(f, SensorSpec(sensor_unit, input.v))
         /\ cur_step' = [cur_step EXCEPT ![f] =
                Options_configuration_menu(StepName(sensor_unit))]
    ELSE /\ UNCHANGED <<user_input, entries>>
         /\ cur_step' = [cur_step EXCEPT ![f] =
                async_show_form(StepName(sensor_unit), "", <<>>)]

\* removed_sensors: the keys of sensor_map that the selection leaves out
RemovedSensors(map, selection) ==
    SelectSeq(EntityIds(map), LAMBDA entity_id : entity_id \notin selection)

\* The for loop over removed_sensors, from its k-th element on.  Removing
\* an entity the registry no longer holds leaves the registry as it is.
\* e["path"] raises KeyError on a spec that has no such key.  The result is
\* the registry, the local updated_sensor, the exception raised ("" when
\* the loop ran to its end) and the ids async_remove was called with.
RECURSIVE RemoveLoop(_, _, _, _, _)
RemoveLoop(removed, k, map, reg, updated_sensor) ==
    IF k > Len(removed)
    THEN [registry |-> reg, updated_sensor |-> updated_sensor, raised |-> "",
          invoked |-> removed]
    ELSE LET entity_id == removed[k]
             after == {r \in reg : r.entity_id # entity_id}
             entry == map[CHOOSE j \in DOMAIN map : map[j].entity_id = entity_id]
             entry_path == entry.unique_id
         IN IF \E j \in DOMAIN updated_sensor : "path" \notin DOMAIN updated_sensor[j]
            THEN [registry |-> after, updated_sensor |-> updated_sensor,
                  raised |-> "KeyError: path", invoked |-> SubSeq(removed, 1, k)]
            ELSE RemoveLoop(removed, k + 1, map, after,
                            SelectSeq(updated_sensor, LAMBDA e : e.path # entry_path))

\* The body of "if user_input is not None" in async_step_delete_sensor
DeleteSubmitted(f, selection) ==
    RemoveLoop(RemovedSensors(sensor_map[f].v, selection), 1, sensor_map[f].v,
               registry, entries[config_entry[f]].data.sensors)

\* A handler that takes "no input" for an empty selection
Options_async_step_delete_sensor_RemovesOnOpen(f, input) ==
    LET out == DeleteSubmitted(f, IF input = None THEN {} ELSE input.v)
    IN /\ registry' = out.registry
       /\ removals' = out.invoked
       /\ cur_step' = [cur_step EXCEPT ![f] =
              IF out.raised # ""
              THEN Escaped(cur_step[f], out.raised)
              ELSE async_show_form("delete_sensor", "", all_sensors[f].v)]

\* OptionsFlowHandler.async_step_delete_sensor; updated_sensor is a local
\* and is dropped when the handler returns
Options_async_step_delete_sensor(f, input) ==
    LET out == IF input = None
               THEN [registry |-> registry, updated_sensor |-> <<>>, raised |-> "",
                     invoked |-> <<>>]
               ELSE DeleteSubmitted(f, input.v)
    IN /\ registry' = out.registry
       /\ removals' = out.invoked
       /\ cur_step' = [cur_step EXCEPT ![f] =
              IF out.raised # ""
              THEN Escaped(cur_step[f], out.raised)
              ELSE async_show_form("delete_sensor", "", all_sensors[f].v)]

----------------------------------------------------------------------------
(* The host's flow manager: which handler it calls, and with what *)

\* The step called neither the validator nor async_remove
NoValidation == validator_calls' = 0
NoRemoval == removals' = <<>>

NoSession == [start |-> <<>>, added |-> <<>>]

Called(f, step, input, outcome) ==
    call' = [flow |-> f, step |-> step, input |-> input, outcome |-> outcome]

\* The step a submission goes to: the step of the form on show (an escaped
\* exception leaves the flow at the form it was answering)
AtForm(f, step) ==
    /\ cur_step[f].type \in {"form", "exception"}
    /\ cur_step[f].step_id = step

Offered(f, option) ==
    /\ cur_step[f].type = "menu"
    /\ \E k \in DOMAIN cur_step[f].menu_options : cur_step[f].menu_options[k] = option

\* A new setup flow: async_step_user is first called without input
SetupStart(f) ==
    /\ handler[f] = "none"
    /\ handler' = [handler EXCEPT ![f] = "SetupConfigFlow"]
    /\ Setup_async_step_user(f, None, "ok")
    /\ Called(f, "user", None, "not_called")
    /\ UNCHANGED <<unique_id, config_entry, all_sensors, sensor_map, entries, registry>>
    /\ NoRemoval
    /\ UNCHANGED <<accepted, session>>

SetupUserSubmit(f) ==
    /\ handler[f] = "SetupConfigFlow"
    /\ AtForm(f, "user")
    /\ \E input \in CredInputs, outcome \in ValidatorOutcomes :
          /\ "sensors" \in DOMAIN input => TotalSensors + Len(input.sensors) <= MaxSensors
          /\ Setup_async_step_user(f, Some(input), outcome)
          /\ Called(f, "user", Some(input), outcome)
    /\ UNCHANGED <<handler, unique_id, config_entry, all_sensors, sensor_map, entries, registry>>
    /\ accepted' = [accepted EXCEPT ![f] =
           IF call'.outcome = "ok" THEN call'.input ELSE @]
    /\ session' = [session EXCEPT ![f] =
           IF call'.outcome = "ok"
           THEN [start |-> IF "sensors" \in DOMAIN call'.input.v
                           THEN call'.input.v.sensors ELSE <<>>,
                 added |-> <<>>]
           ELSE @]
    /\ NoRemoval

SetupOpenForm(f) ==
    /\ handler[f] = "SetupConfigFlow"
    /\ \E sensor_unit \in Units :
          /\ Offered(f, StepName(sensor_unit))
          /\ Setup_manual_configuration_step(f, sensor_unit, None)
          /\ Called(f, StepName(sensor_unit), None, "")
    /\ UNCHANGED <<handler, unique_id, config_entry, all_sensors, sensor_map, registry>>
    /\ NoValidation /\ NoRemoval
    /\ UNCHANGED <<accepted, session>>

SetupSensorSubmit(f) ==
    /\ handler[f] = "SetupConfigFlow"
    /\ TotalSensors < MaxSensors
    /\ \E sensor_unit \in Units, shift \in ShiftInputs :
          /\ AtForm(f, StepName(sensor_unit))
          /\ Setup_manual_configuration_step(f, sensor_unit, Some(shift))
          /\ Called(f, StepName(sensor_unit), Some(shift), "")
    /\ UNCHANGED <<handler, unique_id, config_entry, all_sensors, sensor_map, registry>>
    /\ session' = [session EXCEPT ![f].added =
           Append(@, [unit |-> IF call'.step = "configure_hours_sensor"
                               THEN "hours" ELSE "days",
                      shift |-> call'.input.v])]
    /\ NoValidation /\ NoRemoval
    /\ UNCHANGED accepted

SetupFinish(f) ==
    /\ handler[f] = "SetupConfigFlow"
    /\ Offered(f, "finish_configuration")
    /\ Setup_async_step_finish_configuration(f)
    /\ Called(f, "finish_configuration", None, "")
    /\ UNCHANGED <<handler, user_input, config_entry, all_sensors, sensor_map>>
    /\ NoValidation /\ NoRemoval
    /\ UNCHANGED <<accepted, session>>

\* The host guarantees one options flow per configured instance at a time
OptionsCreate(f) ==
    /\ handler[f] = "none"
    /\ \E i \in DOMAIN entries :
          /\ \A g \in FlowIds : ~(handler[g] = "OptionsFlowHandler" /\ config_entry[g] = i)
          /\ Options_init(f, i)
    /\ handler' = [handler EXCEPT ![f] = "OptionsFlowHandler"]
    /\ Called(f, "__init__", None, "")
    /\ UNCHANGED <<cur_step, unique_id, entries, registry>>
    /\ NoValidation /\ NoRemoval
    /\ UNCHANGED <<accepted, session>>

OptionsInit(f) ==
    /\ handler[f] = "OptionsFlowHandler"
    /\ cur_step[f].type = "none"
    /\ Options_async_step_init(f)
    /\ Called(f, "init", None, "")
    /\ UNCHANGED <<handler, unique_id, config_entry, entries, registry>>
    /\ session' = [session EXCEPT ![f] =
           [start |-> entries[config_entry[f]].data.sensors, added |-> <<>>]]
    /\ NoValidation /\ NoRemoval
    /\ UNCHANGED accepted

OptionsOpenForm(f) ==
    /\ handler[f] = "OptionsFlowHandler"
    /\ \E sensor_unit \in Units :
          /\ Offered(f, StepName(sensor_unit))
          /\ Options_manual_configuration_step(f, sensor_unit, None)
          /\ Called(f, StepName(sensor_unit), None, "")
    /\ UNCHANGED <<handler, unique_id, config_entry, all_sensors, sensor_map, registry>>
    /\ NoValidation /\ NoRemoval
    /\ UNCHANGED <<accepted, session>>

OptionsSensorSubmit(f) ==
    /\ handler[f] = "OptionsFlowHandler"
    /\ TotalSensors < MaxSensors
    /\ \E sensor_unit \in Units, shift \in ShiftInputs :
          /\ AtForm(f, StepName(sensor_unit))
          /\ Options_manual_configuration_step(f, sensor_unit, Some(shift))
          /\ Called(f, StepName(sensor_unit), Some(shift), "")
    /\ UNCHANGED <<handler, unique_id, config_entry, all_sensors, sensor_map, registry>>
    /\ session' = [session EXCEPT ![f].added =
           Append(@, [unit |-> IF call'.step = "configure_hours_sensor"
                               THEN "hours" ELSE "days",
                      shift |-> call'.input.v])]
    /\ NoValidation /\ NoRemoval
    /\ UNCHANGED accepted

OptionsOpenDelete(f) ==
    /\ handler[f] = "OptionsFlowHandler"
    /\ Offered(f, "delete_sensor")
    /\ Options_async_step_delete_sensor(f, None)
    /\ Called(f, "delete_sensor", None, "")
    /\ UNCHANGED <<handler, user_input, unique_id, config_entry, all_sensors, sensor_map, entries>>
    /\ NoValidation
    /\ UNCHANGED <<accepted, session>>

\* The multi-select admits the subsets of the entities on offer
OptionsDeleteSubmit(f) ==
    /\ handler[f] = "OptionsFlowHandler"
    /\ AtForm(f, "delete_sensor")
    /\ \E selection \in SUBSET {all_sensors[f].v[k] : k \in DOMAIN all_sensors[f].v} :
          /\ Options_async_step_delete_sensor(f, Some(selection))
          /\ Called(f, "delete_sensor", Some(selection), "")
    /\ UNCHANGED <<handler, user_input, unique_id, config_entry, all_sensors, sensor_map, entries>>
    /\ NoValidation
    /\ UNCHANGED <<accepted, session>>

OptionsFinish(f) ==
    /\ handler[f] = "OptionsFlowHandler"
    /\ Offered(f, "finish_configuration")
    /\ Options_async_step_finish_configuration(f)
    /\ Called(f, "finish_configuration", None, "")
    /\ UNCHANGED <<handler, user_input, unique_id, config_entry, all_sensors, sensor_map, entries, registry>>
    /\ NoValidation /\ NoRemoval
    /\ UNCHANGED <<accepted, session>>

\* The flow is over (entry created, aborted) or the user abandons it: the
\* host drops the flow instance and all it holds
FlowRemoved(f) ==
    /\ handler[f] # "none"
    /\ handler' = [handler EXCEPT ![f] = "none"]
    /\ cur_step' = [cur_step EXCEPT ![f] = NoResult]
    /\ user_input' = [user_input EXCEPT ![f] = None]
    /\ unique_id' = [unique_id EXCEPT ![f] = ""]
    /\ config_entry' = [config_entry EXCEPT ![f] = 0]
    /\ all_sensors' = [all_sensors EXCEPT ![f] = None]
    /\ sensor_map' = [sensor_map EXCEPT ![f] = None]
    /\ Called(f, "removed", None, "")
    /\ UNCHANGED <<entries, registry>>
    /\ accepted' = [accepted EXCEPT ![f] = None]
    /\ session' = [session EXCEPT ![f] = NoSession]
    /\ NoValidation /\ NoRemoval

Init ==
    /\ handler = [f \in FlowIds |-> "none"]
    /\ cur_step = [f \in FlowIds |-> NoResult]
    /\ user_input = [f \in FlowIds |-> None]
    /\ unique_id = [f \in FlowIds |-> ""]
    /\ config_entry = [f \in FlowIds |-> 0]
    /\ all_sensors = [f \in FlowIds |-> None]
    /\ sensor_map = [f \in FlowIds |-> None]
    /\ entries = <<>>
    /\ registry = {}
    /\ call = [flow |-> 0, step |-> "", input |-> None, outcome |-> ""]
    /\ validator_calls = 0
    /\ removals = <<>>
    /\ accepted = [f \in FlowIds |-> None]
    /\ session = [f \in FlowIds |-> NoSession]

\* The steps of a setup flow and of an options flow the host can take
SetupStep(f) ==
    \/ SetupStart(f)
    \/ SetupUserSubmit(f)
    \/ SetupOpenForm(f)
    \/ SetupSensorSubmit(f)
    \/ SetupFinish(f)

OptionsStep(f) ==
    \/ OptionsCreate(f)
    \/ OptionsInit(f)
    \/ OptionsOpenForm(f)
    \/ OptionsSensorSubmit(f)
    \/ OptionsOpenDelete(f)
    \/ OptionsDeleteSubmit(f)
    \/ OptionsFinish(f)

\* One session after another: a setup flow or an options flow
Next ==
    \/ SetupStep(1)
    \/ OptionsStep(1)
    \/ FlowRemoved(1)

Spec == Init /\ [][Next]_vars

\* Two setup flows side by side
NextSetups ==
    \E f \in FlowIds : SetupStep(f) \/ FlowRemoved(f)

SpecSetups == Init /\ [][NextSetups]_vars

NoneRunning(kind) == \A g \in FlowIds : handler[g] # kind

\* Two flows of the same kind side by side, each run to its end: two setup
\* flows, or the options flows of two configured instances. The second flow
\* starts while the first is there, and the first is dropped after the second;
\* while both are there their steps interleave freely.
NextPair ==
    \E f \in FlowIds :
       \/ /\ NoneRunning("OptionsFlowHandler")
          /\ f = 2 => handler[1] # "none"
          /\ SetupStep(f)
       \/ /\ NoneRunning("SetupConfigFlow")
          /\ f = 2 => handler[1] # "none"
          /\ OptionsStep(f)
       \/ /\ cur_step[f].type \in {"create_entry", "abort"}
          /\ f = 1 => handler[2] = "none"
          /\ FlowRemoved(f)

SpecPair == Init /\ [][NextPair]_vars

Terminal(f) == cur_step[f].type \in {"create_entry", "abort"}

\* One session after another, each carried on by its user until the flow
\* ends: a flow is dropped once it has created its entry or aborted, and an
\* add-sensor form is opened while there is room for the sensor
NextLive ==
    \/ SetupStart(1)
    \/ SetupUserSubmit(1)
    \/ TotalSensors < MaxSensors /\ SetupOpenForm(1)
    \/ SetupSensorSubmit(1)
    \/ SetupFinish(1)
    \/ OptionsCreate(1)
    \/ OptionsInit(1)
    \/ TotalSensors < MaxSensors /\ OptionsOpenForm(1)
    \/ OptionsSensorSubmit(1)
    \/ OptionsOpenDelete(1)
    \/ OptionsDeleteSubmit(1)
    \/ OptionsFinish(1)
    \/ Terminal(1) /\ FlowRemoved(1)

\* Fairness: the user eventually submits an accepted value on each form, and
\* eventually chooses finish_configuration if it is offered again and again;
\* the host calls init on a new options flow
SpecLive ==
    Init /\ [][NextLive]_vars
         /\ WF_vars(SetupUserSubmit(1) /\ call'.outcome = "ok")
         /\ WF_vars(SetupSensorSubmit(1))
         /\ WF_vars(OptionsInit(1))
         /\ WF_vars(OptionsSensorSubmit(1))
         /\ WF_vars(OptionsDeleteSubmit(1))
         /\ SF_vars(SetupFinish(1))
         /\ SF_vars(OptionsFinish(1))

----------------------------------------------------------------------------
(* Properties *)

ThreeChoices ==
    <<"finish_configuration", "configure_hours_sensor", "configure_days_sensor">>

\* The last call was a submission of credentials on which the validator
\* did `outcome`
UserSubmitted(f, outcome) ==
    /\ call.flow = f
    /\ call.step = "user"
    /\ call.input # None
    /\ call.outcome = outcome

\* C1: in a setup flow, a credential submission the validator accepts
\* yields the three-choice menu, and the working record holds the submitted
\* client_id and client_secret and a sensors list: the submitted one if the
\* input carried one, the empty list otherwise.
C1_AcceptedGivesMenu ==
    \A f \in FlowIds :
        UserSubmitted(f, "ok") =>
            /\ cur_step[f].type = "menu"
            /\ cur_step[f].menu_options = ThreeChoices
            /\ user_input[f].kind = "own"
            /\ DOMAIN user_input[f].rec = {"client_id", "client_secret", "sensors"}
            /\ user_input[f].rec.client_id = call.input.v.client_id
            /\ user_input[f].rec.client_secret = call.input.v.client_secret
            /\ user_input[f].rec.sensors =
                   IF "sensors" \in DOMAIN call.input.v
                   THEN call.input.v.sensors ELSE <<>>

\* An accepted submission that carried a sensors list of its own
C1_Witness ==
    \E f \in FlowIds :
        /\ UserSubmitted(f, "ok")
        /\ "sensors" \in DOMAIN call.input.v
        /\ user_input[f].rec.sensors = <<PathSpec>>
        /\ cur_step[f].type = "menu"

\* C2: in a setup flow, a credential submission the validator rejects as
\* an invalid client re-shows the credentials form with errors base =
\* "auth_error", and the flow has no working record.
C2_RejectedShowsAuthError ==
    \A f \in FlowIds :
        UserSubmitted(f, "InvalidClientError") =>
            /\ cur_step[f].type = "form"
            /\ cur_step[f].step_id = "user"
            /\ cur_step[f].errors = "auth_error"
            /\ user_input[f] = None
            /\ unique_id[f] = ""

C2_Witness ==
    \E f \in FlowIds :
        /\ UserSubmitted(f, "InvalidClientError")
        /\ cur_step[f].errors = "auth_error"
        /\ handler[f] = "SetupConfigFlow"

\* C3: in a setup flow, a credential submission on which the validator
\* fails in any other way re-shows the credentials form with errors base =
\* "generic_error"; the failure stays inside the step and the flow has no
\* working record.
C3_FailureShowsGenericError ==
    \A f \in FlowIds :
        UserSubmitted(f, "Exception") =>
            /\ cur_step[f].type = "form"
            /\ cur_step[f].step_id = "user"
            /\ cur_step[f].errors = "generic_error"
            /\ user_input[f] = None
            /\ unique_id[f] = ""

C3_Witness ==
    \E f \in FlowIds :
        /\ UserSubmitted(f, "Exception")
        /\ cur_step[f].errors = "generic_error"
        /\ handler[f] = "SetupConfigFlow"

\* The step taken is the submission of a shift to the add-sensor step of
\* sensor_unit in flow f
ShiftSubmitted(f, sensor_unit) ==
    /\ call'.flow = f
    /\ call'.step = StepName(sensor_unit)
    /\ call'.input # None

\* C4: in both flows, a shift in the unit's range submitted to the unit's
\* add-sensor step appends exactly one SensorSpec {unit, shift} at the end
\* of the working sensors list (the earlier entries stay as they are, a
\* duplicate is kept), and the flow shows the menu.
C4_InRangeAppended ==
    [][\A f \in FlowIds, sensor_unit \in Units :
          (ShiftSubmitted(f, sensor_unit) /\ InRange(sensor_unit, call'.input.v)) =>
              /\ WorkingSensors(user_input'[f], entries') =
                     Append(WorkingSensors(user_input[f], entries),
                            [unit |-> sensor_unit, shift |-> call'.input.v])
              /\ cur_step'[f].type = "menu"]_vars

\* An options flow has appended a spec the list already held
C4_Witness ==
    \E f \in FlowIds :
        /\ handler[f] = "OptionsFlowHandler"
        /\ call.flow = f
        /\ call.step = "configure_hours_sensor"
        /\ call.input = Some(3)
        /\ cur_step[f].type = "menu"
        /\ WorkingSensors(user_input[f], entries) =
               <<[unit |-> "hours", shift |-> 3], [unit |-> "hours", shift |-> 3]>>

\* C5: in both flows, a shift outside the unit's range submitted to the
\* unit's add-sensor step is rejected: nothing is appended, the same form
\* is shown again with an error, and the flow does not go to the menu.
C5_OutOfRangeRejected ==
    [][\A f \in FlowIds, sensor_unit \in Units :
          (ShiftSubmitted(f, sensor_unit) /\ ~InRange(sensor_unit, call'.input.v)) =>
              /\ WorkingSensors(user_input'[f], entries') =
                     WorkingSensors(user_input[f], entries)
              /\ cur_step'[f].type = "form"
              /\ cur_step'[f].step_id = StepName(sensor_unit)
              /\ cur_step'[f].errors # ""]_vars

\* Flow f, a setup flow, has just run its finish step
SetupFinished(f) ==
    /\ handler[f] = "SetupConfigFlow"
    /\ call'.flow = f
    /\ call'.step = "finish_configuration"

\* C6: of two setup flows that validated the same client_id, the one whose
\* finish step runs first emits create-entry (and the host stores its
\* record), the one whose finish step runs second aborts with
\* "already_configured" and stores nothing; no two stored records have the
\* same client_id.
C6_SecondFinishAborts ==
    [][/\ \A f \in FlowIds :
             SetupFinished(f) =>
                 LET rec == user_input[f].rec
                 IN IF \E i \in DOMAIN entries : entries[i].data.client_id = rec.client_id
                    THEN /\ cur_step'[f].type = "abort"
                         /\ cur_step'[f].reason = "already_configured"
                         /\ entries' = entries
                         /\ registry' = registry
                    ELSE /\ cur_step'[f].type = "create_entry"
                         /\ cur_step'[f].data = Some(rec)
                         /\ entries' = Append(entries, [unique_id |-> rec.client_id,
                                                        data |-> rec])
       /\ \A i, j \in DOMAIN entries' :
             entries'[i].data.client_id = entries'[j].data.client_id => i = j]_vars

\* Both flows validated the same client_id; the first to finish created
\* the entry, the second was aborted
C6_Witness ==
    \E f, g \in FlowIds :
        /\ f # g
        /\ handler[f] = "SetupConfigFlow" /\ handler[g] = "SetupConfigFlow"
        /\ cur_step[f].type = "create_entry"
        /\ cur_step[g].type = "abort"
        /\ cur_step[g].reason = "already_configured"
        /\ user_input[f].rec.client_id = user_input[g].rec.client_id
        /\ Len(entries) = 1

\* Flow f, an options flow, has just been handed a selection by its
\* delete_sensor form
DeleteSubmittedTo(f) ==
    /\ handler[f] = "OptionsFlowHandler"
    /\ call'.flow = f
    /\ call'.step = "delete_sensor"
    /\ call'.input # None

\* The registry entries of the snapshot that the selection leaves out
Deselected(f, selection) ==
    {sensor_map[f].v[k] : k \in {j \in DOMAIN sensor_map[f].v :
                                    sensor_map[f].v[j].entity_id \notin selection}}

\* The spec is the one of a registry entry among `gone`: its path is the
\* entry's unique id
MatchedTo(spec, gone) ==
    /\ "path" \in DOMAIN spec
    /\ \E r \in gone : r.unique_id = spec.path

\* C7: in an options flow, a selection S submitted to delete_sensor
\* unregisters exactly the entities of the snapshot that S leaves out, and
\* removes exactly the specs matched to them from the working sensors
\* list, the other specs keeping their order.
C7_DeselectedRemoved ==
    [][\A f \in FlowIds :
          DeleteSubmittedTo(f) =>
              LET gone == Deselected(f, call'.input.v)
              IN /\ registry' = registry \ gone
                 /\ WorkingSensors(user_input'[f], entries') =
                        SelectSeq(WorkingSensors(user_input[f], entries),
                                  LAMBDA e : ~MatchedTo(e, gone))]_vars

\* C8: no step of an options flow (its abandonment included) changes the
\* config entries the host holds.
C8_PersistedRecordUntouched ==
    [][\A f \in FlowIds :
          (handler[f] = "OptionsFlowHandler" /\ call'.flow = f) =>
              entries' = entries]_vars

\* C9: no step-handler invocation ends in an exception that leaves the
\* handler: every one ends in a form, a menu, a created entry or an abort.
C9_NoEscapingError ==
    \A f \in FlowIds : cur_step[f].type # "exception"

\* The step taken opens the form of a menu choice (no input) in flow f
FormOpened(f) ==
    /\ call'.flow = f
    /\ call'.step \in {"configure_hours_sensor", "configure_days_sensor",
                       "delete_sensor"}
    /\ call'.input = None

\* C10: in both flows, opening the form of a menu choice (add hours
\* sensor, add days sensor, delete sensor) with no input shows that form
\* and changes neither the working record nor the stored entries nor the
\* entity registry.
C10_OpeningFormsChangesNothing ==
    [][\A f \in FlowIds :
          FormOpened(f) =>
              /\ cur_step'[f].type = "form"
              /\ cur_step'[f].step_id = call'.step
              /\ user_input'[f] = user_input[f]
              /\ Deref(user_input'[f], entries') = Deref(user_input[f], entries)
              /\ entries' = entries
              /\ registry' = registry]_vars

\* The delete form was opened in an options flow whose record has a sensor
\* and whose entry has registered entities
C10_Witness ==
    \E f \in FlowIds :
        /\ handler[f] = "OptionsFlowHandler"
        /\ call.flow = f
        /\ call.step = "delete_sensor"
        /\ call.input = None
        /\ cur_step[f].type = "form"
        /\ Len(WorkingSensors(user_input[f], entries)) > 0
        /\ \E r \in registry : r.config_entry_id = config_entry[f]

\* C11: in an options flow, delete_sensor called with no input shows the
\* delete form; called with a selection, once the removals are done, it
\* shows the options menu (not the delete form again).
C11_DeleteReturnsToMenu ==
    [][\A f \in FlowIds :
          /\ (handler[f] = "OptionsFlowHandler" /\ call'.flow = f
                /\ call'.step = "delete_sensor" /\ call'.input = None) =>
                 (cur_step'[f].type = "form" /\ cur_step'[f].step_id = "delete_sensor")
          /\ (DeleteSubmittedTo(f) /\ cur_step'[f].type # "exception") =>
                 cur_step'[f].type = "menu"]_vars

\* C12: in an options flow the working record, once taken at init, holds the
\* existing record's sensors followed by every sensor spec submitted in the
\* session, in submission order, across menu round-trips; the record emitted
\* by finish_configuration has exactly those sensors.
C12_EditsSurviveRoundTrips ==
    \A f \in FlowIds :
       (handler[f] = "OptionsFlowHandler" /\ user_input[f] # None) =>
          /\ Deref(user_input[f], entries).sensors =
                session[f].start \o session[f].added
          /\ cur_step[f].type = "create_entry" =>
                cur_step[f].data.v.sensors = session[f].start \o session[f].added

C12_Witness ==
    \E f \in FlowIds :
       /\ handler[f] = "OptionsFlowHandler"
       /\ cur_step[f].type = "create_entry"
       /\ Len(session[f].start) >= 1
       /\ Len(session[f].added) >= 1
       /\ cur_step[f].data.v.sensors = session[f].start \o session[f].added

\* The record has a "sensors" key and a list under it
HasSensorsList(rec) ==
    /\ "sensors" \in DOMAIN rec
    /\ rec.sensors \in Seq({rec.sensors[k] : k \in DOMAIN rec.sensors})

\* C13: whenever a flow of either kind holds a working record, the record has
\* the "sensors" key, holding a list; every record passed to create-entry
\* contains client_id, client_secret and sensors.
C13_SensorsKeyPresent ==
    \A f \in FlowIds :
       /\ user_input[f] # None => HasSensorsList(Deref(user_input[f], entries))
       /\ cur_step[f].type = "create_entry" =>
             /\ {"client_id", "client_secret", "sensors"} \subseteq
                   DOMAIN cur_step[f].data.v
             /\ HasSensorsList(cur_step[f].data.v)

\* Credentials submitted without a sensors list, accepted, and the flow
\* finished straight from the menu
C13_Witness ==
    \E f \in FlowIds :
       /\ handler[f] = "SetupConfigFlow"
       /\ accepted[f] # None
       /\ "sensors" \notin DOMAIN accepted[f].v
       /\ cur_step[f].type = "create_entry"
       /\ cur_step[f].data.v.sensors = <<>>

Credentials(rec) == <<rec.client_id, rec.client_secret>>

\* C14: once a flow holds a working record, no later step of the session
\* changes its client_id or client_secret; a record emitted by
\* finish_configuration carries those credentials; the options flow's
\* finish_configuration always emits create-entry and leaves the unique
\* identity alone.
C14_CredentialsImmutable ==
    [][\A f \in FlowIds :
          (user_input[f] # None /\ call'.flow = f /\ call'.step # "removed") =>
             /\ user_input'[f] # None
             /\ Credentials(Deref(user_input'[f], entries')) =
                   Credentials(Deref(user_input[f], entries))
             /\ cur_step'[f].type = "create_entry" =>
                   Credentials(cur_step'[f].data.v) =
                      Credentials(Deref(user_input[f], entries))
             /\ (handler[f] = "OptionsFlowHandler"
                   /\ call'.step = "finish_configuration") =>
                   /\ cur_step'[f].type = "create_entry"
                   /\ unique_id'[f] = unique_id[f]]_vars

\* An options session that added a sensor and finished
C14_Witness ==
    \E f \in FlowIds :
       /\ handler[f] = "OptionsFlowHandler"
       /\ call.flow = f /\ call.step = "finish_configuration"
       /\ Len(session[f].added) >= 1
       /\ cur_step[f].type = "create_entry"
       /\ cur_step[f].data.v.client_id = entries[config_entry[f]].unique_id

\* C15: in a setup flow the validator is called exactly once by each
\* credential submission, not at all when the credentials form is first
\* shown without input, and by no step of the session after a submission has
\* been accepted (menu choice, add-sensor step, finish_configuration).
C15_ValidatedOncePerSubmission ==
    [][\A f \in FlowIds :
          (handler'[f] = "SetupConfigFlow" /\ call'.flow = f) =>
             /\ (call'.step = "user" /\ call'.input # None) => validator_calls' = 1
             /\ (call'.step = "user" /\ call'.input = None) => validator_calls' = 0
             /\ accepted[f] # None =>
                   (call'.step # "user" /\ validator_calls' = 0)]_vars

\* A sensor submitted after the credentials were accepted
C15_Witness ==
    \E f \in FlowIds :
       /\ handler[f] = "SetupConfigFlow"
       /\ accepted[f] # None
       /\ call.flow = f
       /\ call.step = "configure_days_sensor" /\ call.input # None
       /\ validator_calls = 0

\* C16: every menu of a setup flow offers exactly finish_configuration,
\* configure_hours_sensor and configure_days_sensor; every menu of an options
\* flow offers exactly those and delete_sensor; the delete_sensor step is only
\* ever called on an options flow; every menu offers finish_configuration.
C16_MenuChoices ==
    /\ \A f \in FlowIds :
          cur_step[f].type = "menu" =>
             /\ handler[f] = "SetupConfigFlow" =>
                   cur_step[f].menu_options = ThreeChoices
             /\ handler[f] = "OptionsFlowHandler" =>
                   cur_step[f].menu_options = ThreeChoices \o <<"delete_sensor">>
             /\ Offered(f, "finish_configuration")
             /\ Offered(f, "delete_sensor") => handler[f] = "OptionsFlowHandler"
    /\ call.step = "delete_sensor" => handler[call.flow] = "OptionsFlowHandler"

\* A setup flow back at its menu after a sensor was added
C16_Witness ==
    \E f \in FlowIds :
       /\ handler[f] = "SetupConfigFlow"
       /\ cur_step[f].type = "menu"
       /\ cur_step[f].step_id = "configure_hours_sensor"
       /\ Len(cur_step[f].menu_options) = 3
       /\ ~Offered(f, "delete_sensor")

\* C17: with two setup flows, or the options flows of two configured
\* instances, active side by side, a step of one flow changes neither the
\* other's working record nor its entity snapshot, and each flow's sensors
\* list holds what it started with followed by the specs submitted to that
\* flow, and nothing else.
C17_FlowsIsolated ==
    [][\A f, g \in FlowIds :
          (f # g /\ call'.flow = f /\ handler[g] # "none") =>
             /\ user_input'[g] = user_input[g]
             /\ all_sensors'[g] = all_sensors[g]
             /\ sensor_map'[g] = sensor_map[g]
             /\ user_input[g] # None =>
                   /\ Deref(user_input'[g], entries') = Deref(user_input[g], entries)
                   /\ Deref(user_input'[g], entries').sensors =
                         session'[g].start \o session'[g].added]_vars

\* Two options flows on two instances: a sensor is submitted to one while the
\* other holds its own instance's record
C17_Witness ==
    \E f, g \in FlowIds :
       /\ f # g
       /\ handler[f] = "OptionsFlowHandler" /\ handler[g] = "OptionsFlowHandler"
       /\ config_entry[f] # config_entry[g]
       /\ call.flow = f /\ call.input # None
       /\ Len(session[f].added) = 1
       /\ user_input[g] # None
       /\ Deref(user_input[g], entries).sensors = session[g].start
       /\ Deref(user_input[f], entries).sensors # Deref(user_input[g], entries).sensors

\* C18: a setup flow shows its menu or an add-sensor form, or emits
\* create-entry, only after the validator accepted a submission of this
\* session; the working record and the emitted record carry the client_id and
\* client_secret of the accepted submission.
C18_OnlyAfterValidation ==
    \A f \in FlowIds :
       (/\ handler[f] = "SetupConfigFlow"
        /\ \/ cur_step[f].type \in {"menu", "create_entry"}
           \/ cur_step[f].type = "form" /\ cur_step[f].step_id # "user"
           \/ user_input[f] # None) =>
          /\ accepted[f] # None
          /\ Credentials(Deref(user_input[f], entries)) = Credentials(accepted[f].v)
          /\ cur_step[f].type = "create_entry" =>
                Credentials(cur_step[f].data.v) = Credentials(accepted[f].v)

\* A setup flow that was accepted, added a sensor and emitted its entry
C18_Witness ==
    \E f \in FlowIds :
       /\ handler[f] = "SetupConfigFlow"
       /\ cur_step[f].type = "create_entry"
       /\ accepted[f] # None
       /\ Len(session[f].added) >= 1
       /\ cur_step[f].data.v.client_id = accepted[f].v.client_id
       /\ unique_id[f] = accepted[f].v.client_id

Registered(reg, entity_id) == \E r \in reg : r.entity_id = entity_id

\* C19: in an options session async_remove is invoked at most once per
\* entity id: a delete_sensor submission invokes it only on entities still
\* registered, and the delete_sensor form shown afterwards offers (as its
\* default selection) no entity that has been unregistered.
C19_RemovedAtMostOnce ==
    [][\A f \in FlowIds :
          DeleteSubmittedTo(f) =>
             /\ \A k \in DOMAIN removals' : Registered(registry, removals'[k])
             /\ cur_step'[f].type = "form" =>
                   \A k \in DOMAIN cur_step'[f].default :
                      Registered(registry', cur_step'[f].default[k])]_vars

\* C20: in both flows every session, carried on by a user who eventually
\* submits an accepted value on each form and eventually chooses
\* finish_configuration when it keeps being offered, ends with create-entry
\* or abort; so from every state of a session (credentials form, menu,
\* add-sensor form, delete_sensor form before and after a submission) a
\* terminal outcome is still ahead.
C20_SessionsTerminate ==
    (handler[1] # "none") ~> Terminal(1)

====
